---- MODULE Spec2Model ----
(***************************************************************************)
(* Model of bctoolbox's crypto primitive bindings (RNG, HMAC, HKDF, AEAD) *)
(* and of the VfsEncryptionModule interface built on them.                 *)
(* Source: src/src/vfs/vfs_encryption_module.hh                            *)
(*                                                                         *)
(* mbedtls itself is an external library: its calls are modelled by their  *)
(* documented contract (return codes, what they write to their outputs).   *)
(* AES is abstracted by a keystream function, the GCM tag by the tuple of  *)
(* everything it authenticates; keys are small identifiers.                *)
(***************************************************************************)
EXTENDS Integers, Sequences, FiniteSets, TLC

VARIABLES call,      \* the last primitive call: its inputs, the library's return and its result
          module,    \* the encryption module: lifecycle state and key material
          written,   \* chunk index -> the raw chunk last produced for it and its plaintext
          mres,      \* the last module operation and its result
          pc,        \* per thread: position inside RNG::randomize / c_randomize
          ctxOf,     \* per thread: the DRBG context the call in progress uses
          mutex,     \* per DRBG context: the thread holding the mbedtls mutex, or 0
          drbg,      \* per DRBG context: number of generate calls applied to it
          threading  \* build option MBEDTLS_THREADING_C

vars == <<call, module, written, mres, pc, ctxOf, mutex, drbg, threading>>

(***************************************************************************)
(* Bounds                                                                  *)
(***************************************************************************)
NumKeys == 2
MaxLen == 2
NumThreads == 2
MaxCalls == 2
MaxIndex == 1

Keys == {<<k>> : k \in 1..NumKeys}
PlainBytes == {0, 1, 255}
ByteSamples == {0, 1, 127, 128, 255}
ADs == {<<>>, <<7>>}
IVs == {<<>>, <<1>>, <<2>>}

RECURSIVE SeqsUpTo(_, _)
SeqsUpTo(S, n) ==
    IF n = 0 THEN {<<>>}
    ELSE LET shorter == SeqsUpTo(S, n - 1)
         IN shorter \cup {Append(s, b) : s \in {t \in shorter : Len(t) = n - 1}, b \in S}

Buffers == SeqsUpTo(PlainBytes, MaxLen)

(***************************************************************************)
(* Integer helpers: bit operations and fixed-width conversions             *)
(***************************************************************************)
RECURSIVE BitXor(_, _)
BitXor(a, b) ==
    IF a = 0 THEN b
    ELSE IF b = 0 THEN a
    ELSE (((a % 2) + (b % 2)) % 2) + (2 * BitXor(a \div 2, b \div 2))

RECURSIVE BitOr(_, _)
BitOr(a, b) ==
    IF a = 0 THEN b
    ELSE IF b = 0 THEN a
    ELSE (IF (a % 2) = 1 \/ (b % 2) = 1 THEN 1 ELSE 0) + (2 * BitOr(a \div 2, b \div 2))

\* A 32 bits integer is held as its bit pattern, <<high 16 bits, low 16 bits>>:
\* an int in two's complement and the uint32_t it converts to have the same one.
Half == 65536

\* integral promotion of a uint8_t to int
IntOfByte(b) == <<0, b>>

\* integral promotion of a signed char holding the same byte
IntOfSignedByte(b) == IF b >= 128 THEN <<Half - 1, Half - 256 + b>> ELSE <<0, b>>

\* E1 << n on an int, 0 <= n < 32
Shl32(x, n) ==
    IF n >= 16
    THEN <<(x[2] * (2 ^ (n - 16))) % Half, 0>>
    ELSE <<(x[1] * (2 ^ n) + ((x[2] * (2 ^ n)) \div Half)) % Half, (x[2] * (2 ^ n)) % Half>>

\* E1 | E2 on ints
Or32(x, y) == <<BitOr(x[1], y[1]), BitOr(x[2], y[2])>>

\* conversion of an int to uint32_t: the value modulo 2^32, the same bits
ToUint32(x) == <<x[1] % Half, x[2] % Half>>

Zeros(n) == [i \in 1..n |-> 0]

\* std::vector::resize: keeps the common prefix, value-initialises the rest
Resize(v, n) == [i \in 1..n |-> IF i <= Len(v) THEN v[i] ELSE 0]

(***************************************************************************)
(* mbedtls return codes                                                    *)
(***************************************************************************)
MBEDTLS_ERR_GCM_AUTH_FAILED == -18
MBEDTLS_ERR_GCM_BAD_INPUT == -20
MBEDTLS_ERR_CTR_DRBG_REQUEST_TOO_BIG == -54
MBEDTLS_ERR_CTR_DRBG_ENTROPY_SOURCE_FAILED == -52
MBEDTLS_ERR_CIPHER_ALLOC_FAILED == -24960
MBEDTLS_ERR_MD_ALLOC_FAILED == -20864
MBEDTLS_ERR_HKDF_BAD_INPUT_DATA == -24448
MBEDTLS_CTR_DRBG_MAX_REQUEST == 1024

SetkeyRets == {0, MBEDTLS_ERR_CIPHER_ALLOC_FAILED}
MdRets == {0, MBEDTLS_ERR_MD_ALLOC_FAILED}

(***************************************************************************)
(* Result of a primitive call                                              *)
(***************************************************************************)
NoTag == <<>>

NoCall == [op |-> "none", key |-> <<>>, iv |-> <<>>, ad |-> <<>>, input |-> <<>>,
           tagIn |-> NoTag, size |-> 0, rb |-> <<>>, libret |-> 0,
           outcome |-> "none", msg |-> "", out |-> <<>>, tagOut |-> NoTag,
           value |-> <<0, 0>>, inits |-> 0, frees |-> 0]

(***************************************************************************)
(* Random number generation                                                *)
(***************************************************************************)
\* byte i of the generator's output, for the four bytes rb it produces in turn
DrbgByte(rb, i) == rb[((i - 1) % 4) + 1]

\* mbedtls_ctr_drbg_random: the request size is checked first, then a
\* reseed from the entropy source may fail, else all of output is written
mbedtls_ctr_drbg_random(buffer, size, rb, entropyFails) ==
    IF size > MBEDTLS_CTR_DRBG_MAX_REQUEST
    THEN [ret |-> MBEDTLS_ERR_CTR_DRBG_REQUEST_TOO_BIG, buffer |-> buffer]
    ELSE IF entropyFails
    THEN [ret |-> MBEDTLS_ERR_CTR_DRBG_ENTROPY_SOURCE_FAILED, buffer |-> buffer]
    ELSE [ret |-> 0, buffer |-> [i \in 1..size |-> DrbgByte(rb, i)]]

\* the message chosen without looking at the return code
RngMessageOne(ret) == "RNG failure: entropy source failure"

RngMessage(ret) ==
    IF ret = MBEDTLS_ERR_CTR_DRBG_REQUEST_TOO_BIG
    THEN "RNG failure: Request too big"
    ELSE "RNG failure: entropy source failure"

\* void RNG::randomize(uint8_t *buffer, size_t size)
randomize(buffer, size, rb, entropyFails) ==
    LET r == mbedtls_ctr_drbg_random(buffer, size, rb, entropyFails)
    IN IF r.ret # 0
       THEN [outcome |-> "throw", msg |-> RngMessage(r.ret), out |-> r.buffer, libret |-> r.ret]
       ELSE [outcome |-> "return", msg |-> "", out |-> r.buffer, libret |-> r.ret]

\* std::vector<uint8_t> RNG::randomize(const size_t size)
randomizeVec(size, rb, entropyFails) ==
    LET r == mbedtls_ctr_drbg_random(Zeros(size), size, rb, entropyFails)
    IN IF r.ret # 0
       THEN [outcome |-> "throw", msg |-> RngMessage(r.ret), out |-> <<>>, libret |-> r.ret]
       ELSE [outcome |-> "return", msg |-> "", out |-> r.buffer, libret |-> r.ret]

\* void RNG::c_randomize(uint8_t *buffer, size_t size)
c_randomize(buffer, size, rb, entropyFails) ==
    LET r == mbedtls_ctr_drbg_random(buffer, size, rb, entropyFails)
    IN IF r.ret # 0
       THEN [outcome |-> "throw", msg |-> RngMessage(r.ret), out |-> r.buffer, libret |-> r.ret]
       ELSE [outcome |-> "return", msg |-> "", out |-> r.buffer, libret |-> r.ret]

\* the composition with the bytes read through a signed char
ComposeU32SignedBytes(buffer) ==
    ToUint32(Or32(Or32(Or32(Shl32(IntOfSignedByte(buffer[1]), 24),
                            Shl32(IntOfSignedByte(buffer[2]), 16)),
                       Shl32(IntOfSignedByte(buffer[3]), 8)),
                  IntOfSignedByte(buffer[4])))

\* (buffer[0]<<24) | (buffer[1]<<16) | (buffer[2]<<8) | buffer[3], returned as uint32_t
ComposeU32(buffer) ==
    ToUint32(Or32(Or32(Or32(Shl32(IntOfByte(buffer[1]), 24),
                            Shl32(IntOfByte(buffer[2]), 16)),
                       Shl32(IntOfByte(buffer[3]), 8)),
                  IntOfByte(buffer[4])))

\* uint32_t RNG::randomize()
randomizeU32(stack, rb, entropyFails) ==
    LET r == randomize(stack, 4, rb, entropyFails)
    IN IF r.outcome = "throw"
       THEN [r EXCEPT !.out = <<>>] @@ [value |-> <<0, 0>>]
       ELSE r @@ [value |-> ComposeU32(r.out)]

\* uint32_t RNG::c_randomize()
c_randomizeU32(stack, rb, entropyFails) ==
    LET r == c_randomize(stack, 4, rb, entropyFails)
    IN IF r.outcome = "throw"
       THEN [r EXCEPT !.out = <<>>] @@ [value |-> <<0, 0>>]
       ELSE r @@ [value |-> ComposeU32(r.out)]

(***************************************************************************)
(* Keyed hash and key derivation                                           *)
(***************************************************************************)
Hashes == {"SHA256", "SHA384", "SHA512"}
HkdfHashes == {"SHA256", "SHA512"}

\* the digest, an ideal keyed hash: a term over what it was computed from
Digest(hash, key, input) == <<"hmac", hash, key, input>>

\* what an array or vector holds before the library writes it
NoDigest == <<"uninitialized">>

\* mbedtls_md_hmac: writes the digest to output on success, returns an error
\* (no digest written) when the md context cannot be set up
mbedtls_md_hmac(hash, key, input, output, ret) ==
    IF ret # 0
    THEN [ret |-> ret, output |-> output]
    ELSE [ret |-> 0, output |-> Digest(hash, key, input)]

\* HMAC<SHA256>, HMAC<SHA384>, HMAC<SHA512>: hmacOutput starts with whatever
\* the stack holds (stack), the library's return value is not read
HMAC(hash, key, input, stack, ret) ==
    LET r == mbedtls_md_hmac(hash, key, input, stack, ret)
    IN [outcome |-> "return", msg |-> "", out |-> r.output, libret |-> r.ret]

RECURSIVE SumBytes(_)
SumBytes(v) == IF Len(v) = 0 THEN 0 ELSE v[1] + SumBytes(Tail(v))

\* hashAlgo::ssize()
HashSize(hash) == IF hash = "SHA256" THEN 32 ELSE IF hash = "SHA384" THEN 48 ELSE 64

InfoCode(info) == IF info = "file-key" THEN 1 ELSE 2

\* the derived key material: outputSize bytes, a fixed function of the inputs
\* that stands for HKDF's extract-and-expand
Okm(hash, salt, ikm, info, outputSize) ==
    [i \in 1..outputSize |->
        (SumBytes(salt) * 3 + SumBytes(ikm) * 5 + InfoCode(info) * 7 + HashSize(hash) * 11 + i * 13) % 256]

\* mbedtls_hkdf: okm is written on success only
mbedtls_hkdf(hash, salt, ikm, info, okm, outputSize, ret) ==
    IF ret # 0
    THEN [ret |-> ret, okm |-> okm]
    ELSE [ret |-> 0, okm |-> Okm(hash, salt, ikm, info, outputSize)]

HKDFNoCheck(hash, salt, ikm, info, outputSize, ret) ==
    LET r == mbedtls_hkdf(hash, salt, ikm, info, Zeros(outputSize), outputSize, ret)
    IN [outcome |-> "return", msg |-> "", out |-> r.okm, libret |-> r.ret]

\* HKDF<SHA256>, HKDF<SHA512> (info as a vector or as a string)
HKDF(hash, salt, ikm, info, outputSize, ret) ==
    LET r == mbedtls_hkdf(hash, salt, ikm, info, Zeros(outputSize), outputSize, ret)
    IN IF r.ret # 0
       THEN [outcome |-> "throw", msg |-> "HKDF-" \o hash \o " error", out |-> <<>>, libret |-> r.ret]
       ELSE [outcome |-> "return", msg |-> "", out |-> r.okm, libret |-> r.ret]

(***************************************************************************)
(* Authenticated encryption: AES256-GCM with a 128 bits tag                *)
(***************************************************************************)
\* byte i of the AES-CTR keystream under (key, IV)
KeyStream(key, IV, i) == (key[1] * 89 + IV[1] * 57 + i * 101 + 23) % 256

\* GCM's CTR pass, the same for both directions
GcmCtr(key, IV, data) == [i \in 1..Len(data) |-> BitXor(data[i], KeyStream(key, IV, i))]

\* the authentication tag, an ideal MAC: a term over what it authenticates
GcmTag(key, IV, AD, cipher) == <<key, IV, AD, cipher>>

\* mbedtls_gcm_setkey: with a 256 bits AES key it fails only when the
\* cipher context cannot be set up
mbedtls_gcm_setkey(key, ret) == ret

\* mbedtls_gcm_crypt_and_tag(MBEDTLS_GCM_ENCRYPT): an empty IV is a bad input
mbedtls_gcm_crypt_and_tag(key, IV, AD, input, output, tag) ==
    IF Len(IV) = 0
    THEN [ret |-> MBEDTLS_ERR_GCM_BAD_INPUT, output |-> output, tag |-> tag]
    ELSE LET c == GcmCtr(key, IV, input)
         IN [ret |-> 0, output |-> c, tag |-> GcmTag(key, IV, AD, c)]

\* a decryption that leaves what it decrypted in output when the tag is wrong
gcm_auth_decrypt_no_zeroize(key, IV, AD, tag, input, output) ==
    IF Len(IV) = 0
    THEN [ret |-> MBEDTLS_ERR_GCM_BAD_INPUT, output |-> output]
    ELSE IF tag # GcmTag(key, IV, AD, input)
    THEN [ret |-> MBEDTLS_ERR_GCM_AUTH_FAILED, output |-> GcmCtr(key, IV, input)]
    ELSE [ret |-> 0, output |-> GcmCtr(key, IV, input)]

\* mbedtls_gcm_auth_decrypt: decrypts into output, compares the tags, and on
\* a mismatch zeroizes output and returns MBEDTLS_ERR_GCM_AUTH_FAILED
mbedtls_gcm_auth_decrypt(key, IV, AD, tag, input, output) ==
    IF Len(IV) = 0
    THEN [ret |-> MBEDTLS_ERR_GCM_BAD_INPUT, output |-> output]
    ELSE IF tag # GcmTag(key, IV, AD, input)
    THEN [ret |-> MBEDTLS_ERR_GCM_AUTH_FAILED, output |-> Zeros(Len(input))]
    ELSE [ret |-> 0, output |-> GcmCtr(key, IV, input)]

SetkeyMessage == "Unable to set key in AES_GCM context"

\* AEAD_encrypt without the mbedtls_gcm_free of the key set-up failure path
AEAD_encrypt_leak(key, IV, plain, AD, tag, setkeyRet) ==
    IF mbedtls_gcm_setkey(key, setkeyRet) # 0
    THEN [outcome |-> "throw", msg |-> SetkeyMessage, out |-> <<>>, tagOut |-> tag,
          libret |-> setkeyRet, inits |-> 1, frees |-> 0]
    ELSE LET r == mbedtls_gcm_crypt_and_tag(key, IV, AD, plain, Zeros(Len(plain)), tag)
         IN IF r.ret # 0
            THEN [outcome |-> "throw", msg |-> "Error during AES_GCM encryption", out |-> <<>>,
                  tagOut |-> r.tag, libret |-> r.ret, inits |-> 1, frees |-> 1]
            ELSE [outcome |-> "return", msg |-> "", out |-> r.output,
                  tagOut |-> r.tag, libret |-> r.ret, inits |-> 1, frees |-> 1]

\* AEAD_encrypt<AES256GCM128>: inits and frees count mbedtls_gcm_init and
\* mbedtls_gcm_free on the path taken; tag is the caller's array, written in place
AEAD_encrypt(key, IV, plain, AD, tag, setkeyRet) ==
    IF mbedtls_gcm_setkey(key, setkeyRet) # 0
    THEN [outcome |-> "throw", msg |-> SetkeyMessage, out |-> <<>>, tagOut |-> tag,
          libret |-> setkeyRet, inits |-> 1, frees |-> 1]
    ELSE LET r == mbedtls_gcm_crypt_and_tag(key, IV, AD, plain, Zeros(Len(plain)), tag)
         IN IF r.ret # 0
            THEN [outcome |-> "throw", msg |-> "Error during AES_GCM encryption", out |-> <<>>,
                  tagOut |-> r.tag, libret |-> r.ret, inits |-> 1, frees |-> 1]
            ELSE [outcome |-> "return", msg |-> "", out |-> r.output,
                  tagOut |-> r.tag, libret |-> r.ret, inits |-> 1, frees |-> 1]

\* AEAD_decrypt built on a decryption that does not clear its output
AEAD_decrypt_keep_plain(key, IV, cipher, AD, tag, plain, setkeyRet) ==
    IF mbedtls_gcm_setkey(key, setkeyRet) # 0
    THEN [outcome |-> "throw", msg |-> SetkeyMessage, out |-> plain,
          libret |-> setkeyRet, inits |-> 1, frees |-> 1]
    ELSE LET r == gcm_auth_decrypt_no_zeroize(key, IV, AD, tag, cipher, Resize(plain, Len(cipher)))
         IN IF r.ret = 0
            THEN [outcome |-> "true", msg |-> "", out |-> r.output,
                  libret |-> r.ret, inits |-> 1, frees |-> 1]
            ELSE IF r.ret = MBEDTLS_ERR_GCM_AUTH_FAILED
            THEN [outcome |-> "false", msg |-> "", out |-> r.output,
                  libret |-> r.ret, inits |-> 1, frees |-> 1]
            ELSE [outcome |-> "throw", msg |-> "Error during AES_GCM decryption", out |-> r.output,
                  libret |-> r.ret, inits |-> 1, frees |-> 1]

\* AEAD_decrypt without plain.resize(cipher.size()): the caller's vector keeps its size
AEAD_decrypt_no_resize(key, IV, cipher, AD, tag, plain, setkeyRet) ==
    IF mbedtls_gcm_setkey(key, setkeyRet) # 0
    THEN [outcome |-> "throw", msg |-> SetkeyMessage, out |-> plain,
          libret |-> setkeyRet, inits |-> 1, frees |-> 1]
    ELSE LET r == mbedtls_gcm_auth_decrypt(key, IV, AD, tag, cipher, Resize(plain, Len(cipher)))
             kept == [i \in 1..Len(plain) |-> IF i <= Len(r.output) THEN r.output[i] ELSE plain[i]]
         IN IF r.ret = 0
            THEN [outcome |-> "true", msg |-> "", out |-> kept,
                  libret |-> r.ret, inits |-> 1, frees |-> 1]
            ELSE IF r.ret = MBEDTLS_ERR_GCM_AUTH_FAILED
            THEN [outcome |-> "false", msg |-> "", out |-> kept,
                  libret |-> r.ret, inits |-> 1, frees |-> 1]
            ELSE [outcome |-> "throw", msg |-> "Error during AES_GCM decryption", out |-> kept,
                  libret |-> r.ret, inits |-> 1, frees |-> 1]

\* AEAD_decrypt reporting every failure of the library as a false return
AEAD_decrypt_all_false(key, IV, cipher, AD, tag, plain, setkeyRet) ==
    IF mbedtls_gcm_setkey(key, setkeyRet) # 0
    THEN [outcome |-> "false", msg |-> "", out |-> plain,
          libret |-> setkeyRet, inits |-> 1, frees |-> 1]
    ELSE LET r == mbedtls_gcm_auth_decrypt(key, IV, AD, tag, cipher, Resize(plain, Len(cipher)))
         IN IF r.ret = 0
            THEN [outcome |-> "true", msg |-> "", out |-> r.output,
                  libret |-> r.ret, inits |-> 1, frees |-> 1]
            ELSE [outcome |-> "false", msg |-> "", out |-> r.output,
                  libret |-> r.ret, inits |-> 1, frees |-> 1]

\* AEAD_decrypt<AES256GCM128>: plain is the caller's vector, out is what it
\* holds when the function returns or throws
AEAD_decrypt(key, IV, cipher, AD, tag, plain, setkeyRet) ==
    IF mbedtls_gcm_setkey(key, setkeyRet) # 0
    THEN [outcome |-> "throw", msg |-> SetkeyMessage, out |-> plain,
          libret |-> setkeyRet, inits |-> 1, frees |-> 1]
    ELSE LET r == mbedtls_gcm_auth_decrypt(key, IV, AD, tag, cipher, Resize(plain, Len(cipher)))
         IN IF r.ret = 0
            THEN [outcome |-> "true", msg |-> "", out |-> r.output,
                  libret |-> r.ret, inits |-> 1, frees |-> 1]
            ELSE IF r.ret = MBEDTLS_ERR_GCM_AUTH_FAILED
            THEN [outcome |-> "false", msg |-> "", out |-> r.output,
                  libret |-> r.ret, inits |-> 1, frees |-> 1]
            ELSE [outcome |-> "throw", msg |-> "Error during AES_GCM decryption", out |-> r.output,
                  libret |-> r.ret, inits |-> 1, frees |-> 1]

(***************************************************************************)
(* The primitives: each behaviour is one call, with any inputs and any     *)
(* answer of the library; call keeps the inputs and the result.            *)
(***************************************************************************)
RandSizes == {0, 1, 4, 5, MBEDTLS_CTR_DRBG_MAX_REQUEST, MBEDTLS_CTR_DRBG_MAX_REQUEST + 1}
RandQuads == [1..4 -> ByteSamples]
FillQuads == [1..4 -> {0, 255}]

\* a caller's buffer before the call: size bytes of earlier content
Stale(size) == [i \in 1..size |-> 170]

StackDigests == {NoDigest, Digest("SHA256", <<1>>, <<>>)}
Infos == {"file-key", "file-nonce"}
OkmSizes == {1, 2}
StalePlains == {<<>>, <<9, 9, 9, 9>>}

\* a chunk of data with its first byte changed
Tamper(data) == IF Len(data) = 0 THEN <<1>> ELSE [data EXCEPT ![1] = (data[1] + 1) % 256]

\* tags presented to a decryption: the right one and wrong ones
TagSamples(IV, cipher) ==
    {GcmTag(k, IV, a, c) : k \in Keys, a \in ADs, c \in {cipher, Tamper(cipher)}}

OtherUnchanged == UNCHANGED <<module, written, mres, pc, ctxOf, mutex, drbg, threading>>

DoRandomize ==
    /\ call.op = "none"
    /\ \E size \in RandSizes, rb \in FillQuads, entropyFails \in BOOLEAN :
         call' = randomize(Stale(size), size, rb, entropyFails)
                 @@ [op |-> "randomize", size |-> size, rb |-> rb, input |-> Stale(size)] @@ NoCall
    /\ OtherUnchanged

DoRandomizeVec ==
    /\ call.op = "none"
    /\ \E size \in RandSizes, rb \in FillQuads, entropyFails \in BOOLEAN :
         call' = randomizeVec(size, rb, entropyFails)
                 @@ [op |-> "randomizeVec", size |-> size, rb |-> rb] @@ NoCall
    /\ OtherUnchanged

DoCRandomize ==
    /\ call.op = "none"
    /\ \E size \in RandSizes, rb \in FillQuads, entropyFails \in BOOLEAN :
         call' = c_randomize(Stale(size), size, rb, entropyFails)
                 @@ [op |-> "c_randomize", size |-> size, rb |-> rb, input |-> Stale(size)] @@ NoCall
    /\ OtherUnchanged

DoRandomizeU32 ==
    /\ call.op = "none"
    /\ \E rb \in RandQuads, entropyFails \in BOOLEAN :
         call' = randomizeU32(Stale(4), rb, entropyFails)
                 @@ [op |-> "randomizeU32", size |-> 4, rb |-> rb] @@ NoCall
    /\ OtherUnchanged

DoCRandomizeU32 ==
    /\ call.op = "none"
    /\ \E rb \in RandQuads, entropyFails \in BOOLEAN :
         call' = c_randomizeU32(Stale(4), rb, entropyFails)
                 @@ [op |-> "c_randomizeU32", size |-> 4, rb |-> rb] @@ NoCall
    /\ OtherUnchanged

DoHMAC ==
    /\ call.op = "none"
    /\ \E hash \in Hashes, key \in Keys, input \in Buffers, stack \in StackDigests, ret \in MdRets :
         call' = HMAC(hash, key, input, stack, ret)
                 @@ [op |-> "HMAC", key |-> key, input |-> input, ad |-> <<hash>>] @@ NoCall
    /\ OtherUnchanged

DoHKDF ==
    /\ call.op = "none"
    /\ \E hash \in HkdfHashes, salt \in Buffers, ikm \in Keys, info \in Infos,
          outputSize \in OkmSizes, ret \in {0, MBEDTLS_ERR_HKDF_BAD_INPUT_DATA} :
         call' = HKDF(hash, salt, ikm, info, outputSize, ret)
                 @@ [op |-> "HKDF", key |-> ikm, input |-> salt, ad |-> <<hash, info>>,
                     size |-> outputSize] @@ NoCall
    /\ OtherUnchanged

DoAEADEncrypt ==
    /\ call.op = "none"
    /\ \E key \in Keys, IV \in IVs, plain \in Buffers, AD \in ADs, setkeyRet \in SetkeyRets :
         call' = AEAD_encrypt(key, IV, plain, AD, NoTag, setkeyRet)
                 @@ [op |-> "AEAD_encrypt", key |-> key, iv |-> IV, ad |-> AD, input |-> plain] @@ NoCall
    /\ OtherUnchanged

DoAEADDecrypt ==
    /\ call.op = "none"
    /\ \E key \in Keys, IV \in IVs, cipher \in Buffers, AD \in ADs, plain \in StalePlains,
          setkeyRet \in SetkeyRets :
         \E tag \in TagSamples(IV, cipher) :
            call' = AEAD_decrypt(key, IV, cipher, AD, tag, plain, setkeyRet)
                    @@ [op |-> "AEAD_decrypt", key |-> key, iv |-> IV, ad |-> AD, input |-> cipher,
                        tagIn |-> tag, rb |-> plain] @@ NoCall
    /\ OtherUnchanged

NextPrim ==
    \/ DoRandomize
    \/ DoRandomizeVec
    \/ DoCRandomize
    \/ DoRandomizeU32
    \/ DoCRandomizeU32
    \/ DoHMAC
    \/ DoHKDF
    \/ DoAEADEncrypt
    \/ DoAEADDecrypt

(***************************************************************************)
(* The encryption module (VfsEncryptionModule): lifecycle and chunks.      *)
(* The interface declares these operations; what they do is the protocol   *)
(* of the specification, sections 3 and 4.4.                               *)
(***************************************************************************)
ModuleFileHeaderSize == 1
ChunkSize == 1
KeySize == 1

Indices == 0..MaxIndex
ChunkPlains == SeqsUpTo({255}, ChunkSize + 1) \cup {<<0>>}
HeaderBytes == SeqsUpTo({200}, ModuleFileHeaderSize + 1)

NoChunk == [hdr |-> FALSE, tag |-> NoTag, index |-> 0, cipher |-> <<>>]
NotWritten == [raw |-> NoChunk, plain |-> <<>>]

\* make_VfsEncryptionModule: a module that holds no key material yet;
\* headerBound records that a header was bound with a key derivation that the
\* library reported as successful
NewModule == [state |-> "Uninitialized", salt |-> <<>>, fileKey |-> <<>>, baseNonce |-> <<>>,
              headerBound |-> FALSE]

NoRes == [op |-> "none", outcome |-> "none", plain |-> <<>>, raw |-> NoChunk,
          index |-> 0, input |-> <<>>, libret |-> 0, decrypted |-> FALSE, wasBound |-> FALSE]

\* key and base nonce of a file, derived from its salt
DeriveFileKey(salt, ret) == HKDF("SHA256", <<>>, salt, "file-key", KeySize, ret)
DeriveBaseNonce(salt, ret) == HKDF("SHA256", <<>>, salt, "file-nonce", 1, ret)

\* the nonce of a chunk: the base nonce combined with the chunk index
ChunkNonce(baseNonce, index) == <<BitXor(baseNonce[1], index)>>

\* the chunk index as associated data
ChunkAD(index) == <<index>>

BindHeader(m, salt, ret) ==
    LET k == DeriveFileKey(salt, ret)
        n == DeriveBaseNonce(salt, ret)
    IN IF k.outcome = "throw" \/ n.outcome = "throw"
       THEN [m |-> m, outcome |-> "DerivationError", libret |-> ret]
       ELSE [m |-> [state |-> "Active", salt |-> salt, fileKey |-> k.out, baseNonce |-> n.out,
                    headerBound |-> ret = 0],
             outcome |-> "ok", libret |-> ret]

\* setModuleFileHeader(fileHeader)
setModuleFileHeader(m, fileHeader, ret) ==
    IF Len(fileHeader) # ModuleFileHeaderSize
    THEN [m |-> m, outcome |-> "HeaderParseError", libret |-> 0]
    ELSE BindHeader(m, fileHeader, ret)

\* getModuleFileHeader(): a fresh module generates its salt from the random source
getModuleFileHeader(m, rb, entropyFails, ret) ==
    IF m.state = "Active"
    THEN [m |-> m, outcome |-> "ok", header |-> m.salt, libret |-> 0]
    ELSE LET r == randomizeVec(ModuleFileHeaderSize, rb, entropyFails)
         IN IF r.outcome = "throw"
            THEN [m |-> m, outcome |-> "EntropyFailure", header |-> <<>>, libret |-> r.libret]
            ELSE LET b == BindHeader(m, r.out, ret)
                 IN [m |-> b.m, outcome |-> b.outcome,
                     header |-> IF b.outcome = "ok" THEN r.out ELSE <<>>, libret |-> ret]

\* encryptChunk(chunkIndex, plainData): the raw chunk is the chunk header
\* (tag, index) followed by the ciphertext
encryptChunk(m, chunkIndex, plainData, setkeyRet) ==
    IF m.state # "Active"
    THEN [outcome |-> "NotInitialized", raw |-> NoChunk, libret |-> 0]
    ELSE IF Len(plainData) > ChunkSize
    THEN [outcome |-> "SizeMismatch", raw |-> NoChunk, libret |-> 0]
    ELSE LET r == AEAD_encrypt(m.fileKey, ChunkNonce(m.baseNonce, chunkIndex), plainData,
                               ChunkAD(chunkIndex), NoTag, setkeyRet)
         IN IF r.outcome = "throw"
            THEN [outcome |-> "CipherError", raw |-> NoChunk, libret |-> r.libret]
            ELSE [outcome |-> "ok", libret |-> r.libret,
                  raw |-> [hdr |-> TRUE, tag |-> r.tagOut, index |-> chunkIndex, cipher |-> r.out]]

\* decryptChunk(rawChunk)
decryptChunk(m, rawChunk, setkeyRet) ==
    IF m.state # "Active"
    THEN [outcome |-> "NotInitialized", plain |-> <<>>, libret |-> 0, decrypted |-> FALSE]
    ELSE IF ~rawChunk.hdr \/ Len(rawChunk.cipher) > ChunkSize
    THEN [outcome |-> "MalformedChunk", plain |-> <<>>, libret |-> 0, decrypted |-> FALSE]
    ELSE LET r == AEAD_decrypt(m.fileKey, ChunkNonce(m.baseNonce, rawChunk.index), rawChunk.cipher,
                               ChunkAD(rawChunk.index), rawChunk.tag, <<>>, setkeyRet)
         IN IF r.outcome = "true"
            THEN [outcome |-> "ok", plain |-> r.out, libret |-> r.libret, decrypted |-> TRUE]
            ELSE IF r.outcome = "false"
            THEN [outcome |-> "IntegrityViolation", plain |-> <<>>, libret |-> r.libret,
                  decrypted |-> TRUE]
            ELSE [outcome |-> "CipherError", plain |-> <<>>, libret |-> r.libret,
                  decrypted |-> TRUE]

PrimUnchanged == UNCHANGED <<call, pc, ctxOf, mutex, drbg, threading>>

\* raw chunks read back from storage: the ones written, altered ones, a short read
StoredChunks ==
    {written[i].raw : i \in Indices}
    \cup {[written[i].raw EXCEPT !.cipher = Tamper(@)] : i \in {j \in Indices : written[j].raw.hdr}}
    \cup {[written[i].raw EXCEPT !.index = (@ + 1) % (MaxIndex + 1)] :
             i \in {j \in Indices : written[j].raw.hdr}}

\* the file is closed and a module is made for another file
MakeModule ==
    /\ module' = NewModule
    /\ written' = [i \in Indices |-> NotWritten]
    /\ mres' = [NoRes EXCEPT !.op = "make", !.outcome = "ok"]
    /\ PrimUnchanged

SetModuleFileHeader ==
    /\ module.state = "Uninitialized"
    /\ \E fileHeader \in HeaderBytes, ret \in {0, MBEDTLS_ERR_HKDF_BAD_INPUT_DATA} :
         LET r == setModuleFileHeader(module, fileHeader, ret)
         IN /\ module' = r.m
            /\ mres' = [NoRes EXCEPT !.op = "setModuleFileHeader", !.outcome = r.outcome,
                                     !.input = fileHeader, !.libret = r.libret,
                                     !.wasBound = module.headerBound]
    /\ UNCHANGED written
    /\ PrimUnchanged

GetModuleFileHeader ==
    /\ \E b \in {3}, entropyFails \in BOOLEAN, ret \in {0, MBEDTLS_ERR_HKDF_BAD_INPUT_DATA} :
         LET r == getModuleFileHeader(module, [i \in 1..4 |-> b], entropyFails, ret)
         IN /\ module' = r.m
            /\ mres' = [NoRes EXCEPT !.op = "getModuleFileHeader", !.outcome = r.outcome,
                                     !.plain = r.header, !.libret = r.libret,
                                     !.wasBound = module.headerBound]
    /\ UNCHANGED written
    /\ PrimUnchanged

EncryptChunk ==
    /\ \E chunkIndex \in Indices, plainData \in ChunkPlains, setkeyRet \in SetkeyRets :
         LET r == encryptChunk(module, chunkIndex, plainData, setkeyRet)
         IN /\ mres' = [NoRes EXCEPT !.op = "encryptChunk", !.outcome = r.outcome,
                                     !.raw = r.raw, !.index = chunkIndex, !.input = plainData,
                                     !.libret = r.libret, !.wasBound = module.headerBound]
            /\ written' = IF r.outcome = "ok"
                          THEN [written EXCEPT ![chunkIndex] = [raw |-> r.raw, plain |-> plainData]]
                          ELSE written
    /\ UNCHANGED module
    /\ PrimUnchanged

DecryptChunk ==
    /\ \E rawChunk \in StoredChunks, setkeyRet \in SetkeyRets :
         LET r == decryptChunk(module, rawChunk, setkeyRet)
         IN mres' = [NoRes EXCEPT !.op = "decryptChunk", !.outcome = r.outcome,
                                  !.plain = r.plain, !.raw = rawChunk, !.libret = r.libret,
                                  !.decrypted = r.decrypted, !.wasBound = module.headerBound]
    /\ UNCHANGED <<module, written>>
    /\ PrimUnchanged

NextModule ==
    \/ MakeModule
    \/ SetModuleFileHeader
    \/ GetModuleFileHeader
    \/ EncryptChunk
    \/ DecryptChunk

(***************************************************************************)
(* Threads drawing from the random sources. A call is followed through     *)
(* mbedtls_ctr_drbg_random: entry, the update of the context, return.      *)
(* RNG itself takes no lock; mbedtls locks the context's mutex only in a   *)
(* build with MBEDTLS_THREADING_C.                                         *)
(***************************************************************************)
Threads == 1..NumThreads
Contexts == {"pImpl", "pImplClass"}

\* RNG::randomize uses the instance's context
CallRandomize(t) ==
    /\ pc[t] = "idle"
    /\ drbg["pImpl"] < MaxCalls
    /\ pc' = [pc EXCEPT ![t] = "called"]
    /\ ctxOf' = [ctxOf EXCEPT ![t] = "pImpl"]
    /\ UNCHANGED <<mutex, drbg, threading, call, module, written, mres>>

\* RNG::c_randomize uses the class context
CallCRandomize(t) ==
    /\ pc[t] = "idle"
    /\ drbg["pImplClass"] < MaxCalls
    /\ pc' = [pc EXCEPT ![t] = "called"]
    /\ ctxOf' = [ctxOf EXCEPT ![t] = "pImplClass"]
    /\ UNCHANGED <<mutex, drbg, threading, call, module, written, mres>>

\* entry of mbedtls_ctr_drbg_random on the context of the call
EnterDrbg(t) ==
    /\ pc[t] = "called"
    /\ IF threading
       THEN /\ mutex[ctxOf[t]] = 0
            /\ mutex' = [mutex EXCEPT ![ctxOf[t]] = t]
       ELSE UNCHANGED mutex
    /\ pc' = [pc EXCEPT ![t] = "inDrbg"]
    /\ UNCHANGED <<ctxOf, drbg, threading, call, module, written, mres>>

\* another thread is inside the update of the same context
Racing(t) == \E u \in Threads : u # t /\ pc[u] = "inDrbg" /\ ctxOf[u] = ctxOf[t]

\* the context is updated and the call returns; updates that race leave the
\* context in any state
LeaveDrbg(t) ==
    /\ pc[t] = "inDrbg"
    /\ IF Racing(t)
       THEN \E n \in 0..MaxCalls : drbg' = [drbg EXCEPT ![ctxOf[t]] = n]
       ELSE drbg' = [drbg EXCEPT ![ctxOf[t]] = @ + 1]
    /\ mutex' = IF threading THEN [mutex EXCEPT ![ctxOf[t]] = 0] ELSE mutex
    /\ pc' = [pc EXCEPT ![t] = "idle"]
    /\ UNCHANGED <<ctxOf, threading, call, module, written, mres>>

NextRNG ==
    \/ \E t \in Threads : CallRandomize(t)
    \/ \E t \in Threads : CallCRandomize(t)
    \/ \E t \in Threads : EnterDrbg(t)
    \/ \E t \in Threads : LeaveDrbg(t)

(***************************************************************************)
(* Specifications                                                          *)
(***************************************************************************)
InitThreads ==
    /\ pc = [t \in Threads |-> "idle"]
    /\ ctxOf = [t \in Threads |-> "pImpl"]
    /\ mutex = [c \in Contexts |-> 0]
    /\ drbg = [c \in Contexts |-> 0]

InitModule ==
    /\ module = NewModule
    /\ written = [i \in Indices |-> NotWritten]
    /\ mres = NoRes

InitPrim ==
    /\ call = NoCall
    /\ InitModule
    /\ InitThreads
    /\ threading = FALSE

InitMod ==
    /\ call = NoCall
    /\ InitModule
    /\ InitThreads
    /\ threading = FALSE

InitRNG ==
    /\ call = NoCall
    /\ InitModule
    /\ InitThreads
    /\ threading \in BOOLEAN

\* the primitives, called one at a time with any inputs
SpecPrim == InitPrim /\ [][NextPrim]_vars

\* one encryption module through its life
SpecModule == InitMod /\ [][NextModule]_vars

\* threads sharing the random sources
SpecRNG == InitRNG /\ [][NextRNG]_vars

(***************************************************************************)
(* Properties                                                              *)
(***************************************************************************)
IsAEADDecrypt == call.op = "AEAD_decrypt"

\* C1: AEAD_decrypt has three outcomes, each decided by what the library
\* reports: it returns true exactly when the authenticated decryption
\* succeeds, returns false exactly when the library reports an authentication
\* failure, and throws exactly on every other failure (key set-up included).
C1_DecryptOutcomes ==
    IsAEADDecrypt =>
        /\ call.outcome \in {"true", "false", "throw"}
        /\ (call.outcome = "true") <=> (call.libret = 0)
        /\ (call.outcome = "false") <=> (call.libret = MBEDTLS_ERR_GCM_AUTH_FAILED)
        /\ (call.outcome = "throw") <=> (call.libret \notin {0, MBEDTLS_ERR_GCM_AUTH_FAILED})
        /\ (call.outcome = "false") =>
              (Len(call.iv) > 0 /\ call.tagIn # GcmTag(call.key, call.iv, call.ad, call.input))

\* a wrong tag was presented and the call returned false
C1_Witness ==
    /\ IsAEADDecrypt
    /\ call.outcome = "false"
    /\ call.libret = MBEDTLS_ERR_GCM_AUTH_FAILED
    /\ call.tagIn = GcmTag(call.key, call.iv, call.ad, Tamper(call.input))

\* C4: after AEAD_decrypt returns false the caller's plain vector holds no
\* decrypted byte: every byte it holds is zero.
C4_NoPlaintextOnAuthFailure ==
    (IsAEADDecrypt /\ call.outcome = "false") =>
        /\ Len(call.out) = Len(call.input)
        /\ \A i \in 1..Len(call.out) : call.out[i] = 0

\* a false return for a ciphertext whose decryption is not all zeros, with a
\* plain vector that held data before the call
C4_Witness ==
    /\ IsAEADDecrypt
    /\ call.outcome = "false"
    /\ Len(call.input) > 0
    /\ Len(call.rb) > 0
    /\ \E i \in 1..Len(call.input) : GcmCtr(call.key, call.iv, call.input)[i] # 0

\* C5: every primitive is all-or-nothing: when the library call reports a
\* failure the operation reports an error (an exception, or the false of
\* AEAD_decrypt) and returns no output as if it were valid.
C5_AllOrNothing ==
    (call.op # "none" /\ call.libret # 0) => call.outcome \in {"throw", "false"}

\* C8: the random fill either returns normally with all size bytes written
\* by the generator, or throws; the error thrown for a request above the
\* single-call limit differs from the error thrown for any other cause, and
\* every non-zero return of the generator throws one of the two.
C8_RandomFill ==
    (call.op \in {"randomize", "c_randomize", "randomizeVec"}) =>
        \/ /\ call.outcome = "return"
           /\ call.libret = 0
           /\ Len(call.out) = call.size
           /\ \A i \in 1..call.size : call.out[i] = DrbgByte(call.rb, i)
        \/ /\ call.outcome = "throw"
           /\ call.libret # 0
           /\ call.msg \in {"RNG failure: Request too big", "RNG failure: entropy source failure"}
           /\ (call.msg = "RNG failure: Request too big")
                 <=> (call.size > MBEDTLS_CTR_DRBG_MAX_REQUEST)

\* a request above the limit was refused as too big
C8_Witness ==
    /\ call.op \in {"randomize", "c_randomize"}
    /\ call.size > MBEDTLS_CTR_DRBG_MAX_REQUEST
    /\ call.outcome = "throw"
    /\ call.msg = "RNG failure: Request too big"

\* C9: the 32 bits random value is b0*2^24 + b1*2^16 + b2*2^8 + b3 modulo
\* 2^32 for the four bytes drawn, whatever the bytes (b0 >= 128 included),
\* so that the value determines the four bytes.
C9_BigEndianU32 ==
    (call.op \in {"randomizeU32", "c_randomizeU32"} /\ call.outcome = "return") =>
        /\ call.value = <<call.rb[1] * 256 + call.rb[2], call.rb[3] * 256 + call.rb[4]>>
        /\ call.rb = <<call.value[1] \div 256, call.value[1] % 256,
                       call.value[2] \div 256, call.value[2] % 256>>

\* a value composed from bytes that all have their top bit set
C9_Witness ==
    /\ call.op \in {"randomizeU32", "c_randomizeU32"}
    /\ call.outcome = "return"
    /\ \A i \in 1..4 : call.rb[i] >= 128

IsRoundTrip(i) ==
    /\ mres.op = "decryptChunk"
    /\ written[i].raw.hdr
    /\ mres.raw = written[i].raw

\* C2: decryptChunk applied to the raw chunk that encryptChunk(index, P)
\* returned gives back exactly P, for the module holding the same file key;
\* it never reports an integrity violation and never returns other bytes. The
\* only other outcome is the exception of a library that could not set up
\* its cipher context.
C2_RoundTrip ==
    \A i \in Indices :
        IsRoundTrip(i) =>
            IF mres.libret = 0
            THEN mres.outcome = "ok" /\ mres.plain = written[i].plain
            ELSE mres.outcome = "CipherError" /\ mres.plain = <<>>

\* a non-empty chunk written at the last index was decrypted
C2_Witness ==
    /\ IsRoundTrip(MaxIndex)
    /\ mres.outcome = "ok"
    /\ Len(written[MaxIndex].plain) > 0
    /\ mres.plain = written[MaxIndex].plain

\* C6: decryptChunk carries out a decryption only if the module's header was
\* bound successfully before (by setModuleFileHeader or by generation); a
\* call made before that fails with NotInitialized and returns no plaintext.
C6_Lifecycle ==
    (mres.op = "decryptChunk") =>
        /\ mres.decrypted => (mres.wasBound /\ module.state = "Active")
        /\ ~mres.wasBound => (mres.outcome = "NotInitialized" /\ mres.plain = <<>>)

\* decryptChunk was called on a module whose header is not bound
C6_Witness ==
    /\ mres.op = "decryptChunk"
    /\ ~mres.wasBound
    /\ module.state = "Uninitialized"
    /\ mres.outcome = "NotInitialized"

\* C7: no two calls are inside the update of the same DRBG context at the
\* same time.
C7_Serialized ==
    \A t, u \in Threads :
        (t # u /\ pc[t] = "inDrbg" /\ pc[u] = "inDrbg") => ctxOf[t] # ctxOf[u]

====
